---- MODULE Spec2Model ----
(***************************************************************************)
(* Model of scriptize's shell execution wrapper                            *)
(* (src/scriptize/assets/python/utilities/shell.py): run, run_parallel,    *)
(* and the helpers they call, together with the child processes, their    *)
(* two pipes and the worker pool the code drives.                          *)
(*                                                                         *)
(* Text is modelled by TLA+ strings: a command line is a string that       *)
(* shlex.split tokenizes, a captured stream is the concatenation of the    *)
(* lines read from its pipe.                                               *)
(***************************************************************************)
EXTENDS Integers, Sequences, FiniteSets, TLC

(***************************************************************************)
(* Bounds of the model.                                                    *)
(***************************************************************************)
\* number of lines the child processes of one call write in all, at most
MaxWrites == 2
\* capacity of one pipe, in lines: a write to a full pipe blocks
PipeCap == 1
\* length of the command list handed to run_parallel, at most
MaxCmds == 2
\* largest max_workers handed to run_parallel
MaxWorkers == 2
\* number of poll() and wait() calls the program makes on a handle, at most
MaxPolls == 3

\* the lines a child of run() may write (one ends with a carriage return and
\* a line feed, one has no terminator), the lines a child of run_parallel()
\* may write, and the exit codes of a child
Lines == {"a\n", "b\r\n", "c"}
BatchLines == {"a\n"}
ExitCodes == {0, 2}
Streams == {"stdout", "stderr"}

\* the command lines handed to run and run_parallel
Commands == {"sh", "sh -c", "nope", "nope -x", "", " ", "sh 'x", "/etc"}
\* the environment: the programs that can be executed, and the paths that
\* exist but cannot be executed (a directory, a file without the x bit)
Executables == {"sh"}
NotExecutable == {"/etc"}

OutputModes == {"stream", "frame", "capture", "silent"}

(***************************************************************************)
(* shlex.split, for command lines made of word characters, blanks and     *)
(* single quotes: blanks separate tokens, a quoted part belongs to the    *)
(* token it is in (blanks included, '' is an empty token), and a quote    *)
(* left open is an error (ValueError: No closing quotation).              *)
(***************************************************************************)
CharAt(s, i) == SubSeq(s, i, i)

RECURSIVE ShlexScan(_, _, _, _, _, _)
ShlexScan(s, i, cur, intok, inquote, toks) ==
    IF i > Len(s)
    THEN IF inquote
         THEN [ok |-> FALSE, tokens |-> <<>>]
         ELSE [ok |-> TRUE, tokens |-> IF intok THEN Append(toks, cur) ELSE toks]
    ELSE LET c == CharAt(s, i) IN
         IF inquote
         THEN IF c = "'"
              THEN ShlexScan(s, i + 1, cur, TRUE, FALSE, toks)
              ELSE ShlexScan(s, i + 1, cur \o c, TRUE, TRUE, toks)
         ELSE IF c = "'"
              THEN ShlexScan(s, i + 1, cur, TRUE, TRUE, toks)
              ELSE IF c = " "
                   THEN ShlexScan(s, i + 1, "", FALSE, FALSE,
                                  IF intok THEN Append(toks, cur) ELSE toks)
                   ELSE ShlexScan(s, i + 1, cur \o c, TRUE, FALSE, toks)

ShlexSplit(s) == ShlexScan(s, 1, "", FALSE, FALSE, <<>>)

(***************************************************************************)
(* "".join(lines) and str.strip().                                         *)
(***************************************************************************)
RECURSIVE Join(_)
Join(lines) == IF lines = <<>> THEN "" ELSE Head(lines) \o Join(Tail(lines))

IsSpace(c) == c \in {" ", "\n", "\t", "\r"}

RECURSIVE LStrip(_)
LStrip(s) == IF Len(s) > 0 /\ IsSpace(CharAt(s, 1))
             THEN LStrip(SubSeq(s, 2, Len(s)))
             ELSE s

RECURSIVE RStrip(_)
RStrip(s) == IF Len(s) > 0 /\ IsSpace(CharAt(s, Len(s)))
             THEN RStrip(SubSeq(s, 1, Len(s) - 1))
             ELSE s

Strip(s) == RStrip(LStrip(s))

(***************************************************************************)
(* The text layer of the pipes (Popen(..., text=True, encoding="utf-8")):  *)
(* a TextIOWrapper in universal newlines mode, which hands "\r\n" and      *)
(* "\r" to the reader as "\n".                                             *)
(***************************************************************************)
RECURSIVE UniversalNewlines(_)
UniversalNewlines(s) ==
    IF Len(s) = 0 THEN ""
    ELSE IF Len(s) >= 2 /\ SubSeq(s, 1, 2) = "\r\n"
    THEN "\n" \o UniversalNewlines(SubSeq(s, 3, Len(s)))
    ELSE IF CharAt(s, 1) = "\r"
    THEN "\n" \o UniversalNewlines(SubSeq(s, 2, Len(s)))
    ELSE CharAt(s, 1) \o UniversalNewlines(SubSeq(s, 2, Len(s)))

(***************************************************************************)
(* ShellResult and the exceptions.                                         *)
(***************************************************************************)
ShellResult(out, err, rc, p) ==
    [stdout |-> out, stderr |-> err, returncode |-> rc, pid |-> p]

\* subprocess.CalledProcessError(returncode, cmd=args, output=..., stderr=...)
CalledProcessError(rc, args, out, err) ==
    [type |-> "CalledProcessError", returncode |-> rc, cmd |-> args,
     output |-> out, stderr |-> err]

\* an exception whose str() is msg
Exc(type, msg) == [type |-> type, msg |-> msg]

Returned(v) == [kind |-> "return", value |-> v]
Raised(e) == [kind |-> "raise", exc |-> e]
NoOutcome == [kind |-> "none"]

(***************************************************************************)
(* The environment's answer to subprocess.Popen(args, cwd=cwd): the        *)
(* exception it raises, or NoError when the process is created.            *)
(***************************************************************************)
Cwds == {"None", "/missing"}
MissingDirs == {"/missing"}

NoError == [type |-> "none", msg |-> ""]

PopenError(args, cwd) ==
    IF args = <<>>
    THEN Exc("IndexError", "list index out of range")
    ELSE IF cwd \in MissingDirs
    THEN Exc("FileNotFoundError",
             "[Errno 2] No such file or directory: '" \o cwd \o "'")
    ELSE IF args[1] \in Executables
    THEN NoError
    ELSE IF args[1] \in NotExecutable
    THEN Exc("PermissionError",
             "[Errno 13] Permission denied: '" \o args[1] \o "'")
    ELSE Exc("FileNotFoundError",
             "[Errno 2] No such file or directory: '" \o args[1] \o "'")

(***************************************************************************)
(* The state.                                                              *)
(***************************************************************************)
VARIABLES
    pc,          \* the calling thread: "idle", "run", "collect", "abort", "done"
    ret,         \* what the call gave its caller: a value or an exception
    tasks,       \* the run() invocations, by number
    procs,       \* the child process of each invocation and its two pipes
    spawned,     \* the number of child processes created so far
    console,     \* the calls made on the presentation and diagnostic sinks
    sys_stdout,  \* the lines written to the caller's sys.stdout
    sys_stderr,  \* the lines written to the caller's sys.stderr
    batch,       \* the arguments and locals of the run_parallel call
    queue,       \* the executor's work queue: submitted, not yet picked up
    results,     \* run_parallel's results dict, in insertion order
    handle,      \* the Popen object run_background gave, and its use so far
    finished,    \* the run() invocations, in the order in which they ended
    menu,        \* cli.selection: its arguments, locals and outcome
    fs,          \* the files create_symlink works on, by path
    sym,         \* files.create_symlink: its arguments and outcome
    disk,        \* the project directory build_project works on
    build        \* builder.build_project: its arguments, position and outcome

\* the variables of the other utilities, which the shell wrapper leaves alone
otherVars == <<menu, fs, sym, disk, build>>

vars == <<pc, ret, tasks, procs, spawned, console, sys_stdout, sys_stderr,
          batch, queue, results, handle, finished, otherVars>>

TaskIds == 1..MaxCmds

NoTask == [st |-> "unused", cmd |-> "", check |-> FALSE, mode |-> "capture",
           dry_run |-> FALSE, cwd |-> "None", args |-> <<>>,
           stdout_lines |-> <<>>, stderr_lines |-> <<>>, outcome |-> NoOutcome]

\* a child: script is what it has yet to write, a sequence of <<stream, line>>,
\* and code the exit code it ends with; planned is the length of its script
\* at its start, wrote_out and wrote_err are the lines it has written.
\* popen: Popen was called for it; piped: Popen made its stdout and stderr
\* pipes; out_open, err_open: the caller's ends of these pipes are open
NoProc == [created |-> FALSE, alive |-> FALSE, pid |-> -1, out |-> <<>>,
           err |-> <<>>, wrote_out |-> <<>>, wrote_err |-> <<>>, script |-> <<>>,
           planned |-> 0, code |-> 0, reaped |-> FALSE, popen |-> FALSE,
           piped |-> FALSE, out_open |-> FALSE, err_open |-> FALSE]

\* level is the effective level of the root logger when the summary is due;
\* iterating is whether as_completed has been called, already the futures
\* that had completed by then
NoBatch == [commands |-> <<>>, max_workers |-> 0, show_progress |-> FALSE,
            show_summary |-> FALSE, advanced |-> 0, processed |-> {},
            pending |-> NoError, level |-> 0, iterating |-> FALSE,
            already |-> {}]

\* Optional values: None, or the value
None == <<>>
Some(v) == <<v>>

\* returncode is Popen.returncode (None until poll() or wait() has seen the
\* child's end); log is what the program's poll() and wait() calls gave, each
\* with whether the child was running when the call was made
NoHandle == [returncode |-> None, log |-> <<>>]

\* cli.selection: keys are the keys read so far
NoMenu == [st |-> "idle", choices |-> <<>>, current_index |-> 0, keys |-> <<>>,
           ret |-> NoOutcome]

\* a path of the file system: nothing, a file, a directory, or a symbolic
\* link with the path it points to
Missing == [kind |-> "missing", dest |-> ""]
File == [kind |-> "file", dest |-> ""]
Dir == [kind |-> "dir", dest |-> ""]
Symlink(dest) == [kind |-> "symlink", dest |-> dest]

\* the paths of the model: the target and link_path handed to create_symlink,
\* and the paths existing links point to (a file, a directory, nothing)
Paths == {"t", "l", "f", "d", "m"}
NoFiles == [p \in Paths |-> Missing]

\* files.create_symlink: before is what was at link_path when it was called
NoSym == [st |-> "idle", target |-> "", link_path |-> "", overwrite |-> FALSE,
          before |-> Missing, ret |-> NoOutcome]

\* the project directory: whether it exists, who made it ("build" or another
\* process, "other"), and what is in it
NoDisk == [exists |-> FALSE, maker |-> "none", content |-> {}]

\* builder.build_project: made is whether its mkdir made the directory,
\* taken is whether the directory of another process was ever found in its
\* place, pending the exception its except clause re-raises
NoBuild == [st |-> "idle", include_bash |-> FALSE, include_python |-> FALSE,
            made |-> FALSE, pending |-> NoError, ret |-> NoOutcome]

OtherInit ==
    /\ menu = NoMenu
    /\ fs = NoFiles
    /\ sym = NoSym
    /\ disk = NoDisk
    /\ build = NoBuild

ShellInit ==
    /\ finished = <<>>
    /\ pc = "idle"
    /\ ret = NoOutcome
    /\ tasks = [t \in TaskIds |-> NoTask]
    /\ procs = [t \in TaskIds |-> NoProc]
    /\ spawned = 0
    /\ console = <<>>
    /\ sys_stdout = <<>>
    /\ sys_stderr = <<>>
    /\ batch = NoBatch
    /\ queue = <<>>
    /\ results = <<>>
    /\ handle = NoHandle

Init == ShellInit /\ OtherInit

(***************************************************************************)
(* The sinks of utilities/cli.py, as the calls made on them.               *)
(***************************************************************************)
SinkCall(sink, text, title, style) ==
    [sink |-> sink, text |-> text, title |-> title, style |-> style]

\* _handle_dry_run: cli.info(...) and the mock result
DryRunInfo(command) ==
    SinkCall("info", "[DRY RUN] Would execute: [bold]" \o command \o "[/bold]",
             "", "")

DryRunResult == ShellResult("", "", 0, -1)

\* a _frame_output that shows the stream even when it is empty
FrameOutputAlways(command, result) ==
    IF result.returncode = 0
    THEN <<SinkCall("framed_box", Strip(result.stdout),
                    "Output of: [bold]" \o command \o "[/bold]", "info")>>
    ELSE <<SinkCall("framed_box", Strip(result.stderr),
                    "Error from: [bold]" \o command \o "[/bold]", "error")>>

\* _frame_output(command, result): the calls it makes on cli.framed_box
FrameOutput(command, result) ==
    IF result.returncode = 0
    THEN IF result.stdout = ""
         THEN <<>>
         ELSE <<SinkCall("framed_box", Strip(result.stdout),
                         "Output of: [bold]" \o command \o "[/bold]", "info")>>
    ELSE IF result.stderr = ""
         THEN <<>>
         ELSE <<SinkCall("framed_box", Strip(result.stderr),
                         "Error from: [bold]" \o command \o "[/bold]", "error")>>

(***************************************************************************)
(* run(): from its entry to the spawn of the child.                        *)
(***************************************************************************)
\* a run() without its except clause: Popen's own exception leaves it
SpawnFailureUnhandled(args, err) == err

\* a run() that renames only the error of an executable that is not found
SpawnFailureOfExecutable(args, err) ==
    IF err.type = "FileNotFoundError"
       /\ err.msg = "[Errno 2] No such file or directory: '" \o args[1] \o "'"
    THEN Exc("FileNotFoundError", "Command not found: " \o args[1])
    ELSE err

\* the exception run() raises when Popen raised err (the except clause);
\* `from None` leaves it without a cause
SpawnFailure(args, err) ==
    IF err.type = "FileNotFoundError"
    THEN Exc("FileNotFoundError", "Command not found: " \o args[1])
    ELSE err

\* a run() that leaves stderr out of the CalledProcessError it raises
RunOutcomeWithoutStderr(check, args, result) ==
    IF check /\ result.returncode # 0
    THEN Raised(CalledProcessError(result.returncode, args, result.stdout, ""))
    ELSE Returned(result)

\* a run() that raises on every non-zero exit code, whatever check is
RunOutcomeIgnoringCheck(check, args, result) ==
    IF result.returncode # 0
    THEN Raised(CalledProcessError(result.returncode, args, result.stdout,
                                   result.stderr))
    ELSE Returned(result)

\* how run() ends once _execute_process has returned result (the else clause)
RunOutcome(check, args, result) ==
    IF check /\ result.returncode # 0
    THEN Raised(CalledProcessError(result.returncode, args, result.stdout,
                                   result.stderr))
    ELSE Returned(result)

\* a run() that frames the output in capture mode as well
RunDisplayFramingCapture(command, mode, result) ==
    (IF mode = "stream" /\ (result.stdout # "" \/ result.stderr # "")
     THEN <<SinkCall("line", "", "", "")>>
     ELSE <<>>)
    \o (IF mode \in {"frame", "capture"} THEN FrameOutput(command, result)
        ELSE <<>>)

\* what run() shows once _execute_process has returned result
RunDisplay(command, mode, result) ==
    (IF mode = "stream" /\ (result.stdout # "" \/ result.stderr # "")
     THEN <<SinkCall("line", "", "", "")>>
     ELSE <<>>)
    \o (IF mode = "frame" THEN FrameOutput(command, result) ELSE <<>>)

\* a run() that tests check first and shows the output of a run that passes
ShownAfterCheck(task, result) ==
    IF task.check /\ result.returncode # 0 THEN <<>>
    ELSE RunDisplay(task.cmd, task.mode, result)

\* the else clause of run(): the output is shown, then check is tested
ShownBeforeCheck(task, result) == RunDisplay(task.cmd, task.mode, result)

\* a run() that tests dry_run only after it has tokenized and spawned
EntryStepDryRunLast(command, dry_run, cwd) ==
    IF ~ShlexSplit(command).ok THEN "split"
    ELSE IF PopenError(ShlexSplit(command).tokens, cwd).type = "none" THEN "spawn"
    ELSE IF dry_run THEN "dry"
    ELSE "fail"

\* the step of invocation t that run() takes on entry: "dry" (mock result),
\* "split" (shlex.split raises), "spawn" (Popen succeeds), "fail" (Popen raises)
EntryStep(command, dry_run, cwd) ==
    IF dry_run THEN "dry"
    ELSE IF ~ShlexSplit(command).ok THEN "split"
    ELSE IF PopenError(ShlexSplit(command).tokens, cwd).type = "none" THEN "spawn"
    ELSE "fail"

\* Popen(args, stdout=PIPE, stderr=PIPE, ...) that started a child: the pipes
\* are made and the child runs
PopenStarted(pid, script, code) ==
    [NoProc EXCEPT !.created = TRUE, !.alive = TRUE, !.pid = pid,
                   !.script = script, !.planned = Len(script), !.code = code,
                   !.popen = TRUE, !.piped = TRUE, !.out_open = TRUE,
                   !.err_open = TRUE]

\* Popen(args, stdout=PIPE, stderr=PIPE, ...) that raised: it makes the pipes
\* before it looks at args and at the executable, and closes them when it
\* fails
PopenFailed == [NoProc EXCEPT !.popen = TRUE, !.piped = TRUE]

RECURSIVE SumPlanned(_, _)
SumPlanned(ps, n) == IF n = 0 THEN 0 ELSE ps[n].planned + SumPlanned(ps, n - 1)

\* a line that ends with a line terminator
Terminated(line) == Len(line) > 0 /\ CharAt(line, Len(line)) = "\n"

\* a child writes whole lines: only the last line of a stream may lack its
\* terminator
WholeLines(script) ==
    \A i, j \in DOMAIN script :
        (i < j /\ script[i][1] = script[j][1]) => Terminated(script[i][2])

\* the behaviours of a child: what it writes, in order, out of lines
Scripts(lines) ==
    {s \in UNION {[1..n -> Streams \X lines] : n \in 0..MaxWrites} :
        WholeLines(s)}

\* the behaviours <<script, exit code>> of the child this entry of run() spawns
\* (one empty behaviour when it spawns none)
Behaviours(command, dry_run, cwd, lines) ==
    IF EntryStep(command, dry_run, cwd) = "spawn"
    THEN {s \in Scripts(lines) : SumPlanned(procs, MaxCmds) + Len(s) <= MaxWrites}
         \X ExitCodes
    ELSE {<<<<>>, 0>>}

\* script and code are the behaviour of the child, if one is spawned
EnterRun(t, command, check, mode, dry_run, cwd, script, code) ==
    LET args == ShlexSplit(command).tokens
        step == EntryStep(command, dry_run, cwd)
        entered == [NoTask EXCEPT !.cmd = command, !.check = check,
                                  !.mode = mode, !.dry_run = dry_run,
                                  !.cwd = cwd, !.args = args]
        ended(o) == [entered EXCEPT !.st = "done", !.outcome = o]
    IN  /\ tasks' = [tasks EXCEPT ![t] =
              CASE step = "dry" -> ended(Returned(DryRunResult))
                [] step = "split" ->
                       ended(Raised(Exc("ValueError", "No closing quotation")))
                [] step = "fail" ->
                       ended(Raised(SpawnFailure(args, PopenError(args, cwd))))
                [] step = "spawn" -> [entered EXCEPT !.st = "reading_stdout"]]
        /\ console' = IF step = "dry"
                      THEN Append(console, DryRunInfo(command))
                      ELSE console
        /\ spawned' = IF step = "spawn" THEN spawned + 1 ELSE spawned
        /\ finished' = IF step = "spawn" THEN finished ELSE Append(finished, t)
        /\ procs' = [procs EXCEPT ![t] =
              CASE step = "spawn" -> PopenStarted(spawned + 1, script, code)
                [] step = "fail" -> PopenFailed
                [] OTHER -> NoProc]

\* run(command, check=, output_mode=, dry_run=, cwd=) called by the program
CallRun(command, check, mode, dry_run, cwd) ==
    /\ pc = "idle"
    /\ \E b \in Behaviours(command, dry_run, cwd, Lines) :
          EnterRun(1, command, check, mode, dry_run, cwd, b[1], b[2])
    /\ pc' = IF tasks'[1].st = "done" THEN "done" ELSE "run"
    /\ ret' = tasks'[1].outcome
    /\ UNCHANGED <<sys_stdout, sys_stderr, batch, queue, results, handle,
                   otherVars>>

(***************************************************************************)
(* The child process: it writes the lines of its script to its stdout and  *)
(* stderr, blocking while the pipe it writes to is full, and then exits    *)
(* with its exit code; its exit closes its ends of both pipes.             *)
(***************************************************************************)
ChildWrite(t) ==
    /\ procs[t].alive
    /\ procs[t].script # <<>>
    /\ LET stream == Head(procs[t].script)[1]
           line == Head(procs[t].script)[2]
       IN  IF stream = "stdout"
           THEN /\ Len(procs[t].out) < PipeCap
                /\ procs' = [procs EXCEPT ![t].out = Append(@, line),
                                          ![t].wrote_out = Append(@, line),
                                          ![t].script = Tail(@)]
           ELSE /\ Len(procs[t].err) < PipeCap
                /\ procs' = [procs EXCEPT ![t].err = Append(@, line),
                                          ![t].wrote_err = Append(@, line),
                                          ![t].script = Tail(@)]
    /\ UNCHANGED <<pc, ret, tasks, spawned, console, sys_stdout, sys_stderr,
                   batch, queue, results, handle,
                   finished, otherVars>>

ChildExit(t) ==
    /\ procs[t].alive
    /\ procs[t].script = <<>>
    /\ procs' = [procs EXCEPT ![t].alive = FALSE]
    /\ UNCHANGED <<pc, ret, tasks, spawned, console, sys_stdout, sys_stderr,
                   batch, queue, results, handle,
                   finished, otherVars>>

(***************************************************************************)
(* _execute_process: `for line in proc.stdout`, then `for line in          *)
(* proc.stderr`, then proc.wait() and the result.                          *)
(***************************************************************************)
\* the stream _execute_process reads in state st
ReadingStream(st) == IF st = "reading_stdout" THEN "stdout" ELSE "stderr"

\* a relay that writes the line in every output mode
RelayAlways(should_stream_raw, stream, line) == Append(stream, line)

\* `if should_stream_raw: sys.stdout.write(line); sys.stdout.flush()` (and
\* the same for sys.stderr): the stream after the line was read
Relay(should_stream_raw, stream, line) ==
    IF should_stream_raw THEN Append(stream, line) ELSE stream

\* one turn of `for line in proc.stdout` or of `for line in proc.stderr`
ReadLine(t) ==
    /\ tasks[t].st \in {"reading_stdout", "reading_stderr"}
    /\ IF ReadingStream(tasks[t].st) = "stdout"
       THEN /\ procs[t].out # <<>>
            /\ LET line == UniversalNewlines(Head(procs[t].out)) IN
               /\ tasks' = [tasks EXCEPT ![t].stdout_lines = Append(@, line)]
               /\ sys_stdout' = Relay(tasks[t].mode = "stream", sys_stdout, line)
            /\ procs' = [procs EXCEPT ![t].out = Tail(@)]
            /\ UNCHANGED sys_stderr
       ELSE /\ procs[t].err # <<>>
            /\ LET line == UniversalNewlines(Head(procs[t].err)) IN
               /\ tasks' = [tasks EXCEPT ![t].stderr_lines = Append(@, line)]
               /\ sys_stderr' = Relay(tasks[t].mode = "stream", sys_stderr, line)
            /\ procs' = [procs EXCEPT ![t].err = Tail(@)]
            /\ UNCHANGED sys_stdout
    /\ UNCHANGED <<pc, ret, spawned, console, batch, queue, results, handle,
                   finished, otherVars>>

\* a result that does not carry the pid of the process
ProcessResultWithoutPid(task, proc) ==
    ShellResult(Join(task.stdout_lines), Join(task.stderr_lines), proc.code, -1)

\* an _execute_process whose two line lists outlive the call
ProcessResultOfSharedLists(task, proc) ==
    ShellResult(Join(tasks[1].stdout_lines \o
                     (IF task = tasks[1] THEN <<>> ELSE task.stdout_lines)),
                Join(tasks[1].stderr_lines \o
                     (IF task = tasks[1] THEN <<>> ELSE task.stderr_lines)),
                proc.code, proc.pid)

\* the result _execute_process builds
ProcessResult(task, proc) ==
    ShellResult(Join(task.stdout_lines), Join(task.stderr_lines), proc.code,
                proc.pid)

\* end-of-file on the stream being read: all its lines are read and the
\* child has closed it
AtEOF(t) ==
    /\ ~procs[t].alive
    /\ IF ReadingStream(tasks[t].st) = "stdout"
       THEN procs[t].out = <<>>
       ELSE procs[t].err = <<>>

StdoutEOF(t) ==
    /\ tasks[t].st = "reading_stdout"
    /\ AtEOF(t)
    /\ tasks' = [tasks EXCEPT ![t].st = "reading_stderr"]
    /\ UNCHANGED <<pc, ret, procs, spawned, console, sys_stdout, sys_stderr,
                   batch, queue, results, handle,
                   finished, otherVars>>

\* a `with` block that leaves the pipes open and the child unreaped
PopenExitLeaking(proc) == proc

\* proc.wait() and the end of `with subprocess.Popen(...) as proc`: the
\* caller's ends of the pipes are closed and the child is waited for
PopenExit(proc) ==
    [proc EXCEPT !.reaped = TRUE, !.out_open = FALSE, !.err_open = FALSE]

\* end-of-file on stderr, proc.wait(), the result, and the rest of run()
RunFinish(t) ==
    /\ tasks[t].st = "reading_stderr"
    /\ AtEOF(t)
    /\ LET result == ProcessResult(tasks[t], procs[t])
           outcome == RunOutcome(tasks[t].check, tasks[t].args, result)
       IN  /\ procs' = [procs EXCEPT ![t] = PopenExit(@)]
           /\ console' = console \o ShownBeforeCheck(tasks[t], result)
           /\ tasks' = [tasks EXCEPT ![t].st = "done", ![t].outcome = outcome]
           /\ finished' = Append(finished, t)
           /\ IF pc = "run"
              THEN pc' = "done" /\ ret' = outcome
              ELSE UNCHANGED <<pc, ret>>
    /\ UNCHANGED <<spawned, sys_stdout, sys_stderr, batch, queue, results,
                   handle,
                   otherVars>>

\* the steps of invocation t and of its child once the child is spawned
RunStep(t) ==
    \/ ChildWrite(t)
    \/ ChildExit(t)
    \/ ReadLine(t)
    \/ StdoutEOF(t)
    \/ RunFinish(t)

(***************************************************************************)
(* run_parallel: a dict in insertion order, the executor, the loop over    *)
(* as_completed, and the summary.                                          *)
(***************************************************************************)
BatchCommands == {"sh", "sh -c", "nope", "", "sh 'x", "/etc"}

\* an assignment that leaves the new entry alone in the dict
DictSetClobbering(d, k, v) == <<[cmd |-> k, res |-> v]>>

\* d[k] = v on a dict kept as the sequence of its entries
RECURSIVE DictSet(_, _, _)
DictSet(d, k, v) ==
    IF d = <<>> THEN <<[cmd |-> k, res |-> v]>>
    ELSE IF Head(d).cmd = k THEN <<[cmd |-> k, res |-> v]>> \o Tail(d)
    ELSE <<Head(d)>> \o DictSet(Tail(d), k, v)

DictKeys(d) == {d[i].cmd : i \in DOMAIN d}
DictGet(d, k) == d[CHOOSE i \in DOMAIN d : d[i].cmd = k].res

\* logging's levels, and the TaskID rich's Progress.add_task gives its first task
LoggingDEBUG == 10
LoggingINFO == 20
LoggingWARNING == 30
LogLevels == {LoggingDEBUG, LoggingINFO, LoggingWARNING}
FirstTaskID == 0

\* _display_parallel_results (its arrow, check mark and cross are written in
\* ASCII here)
RECURSIVE SummaryLines(_)
SummaryLines(d) ==
    IF d = <<>> THEN <<>>
    ELSE (IF Head(d).res.returncode = 0
          THEN <<SinkCall("print", " +--> [green]ok[/] '" \o Head(d).cmd \o "'",
                          "", "")>>
          ELSE <<SinkCall("print", " +--> [red]failed[/] '" \o Head(d).cmd \o "'",
                          "", "")>>)
         \o FrameOutput(Head(d).cmd, Head(d).res)
         \o SummaryLines(Tail(d))

\* a summary that does not ask for the level of the root logger
DisplayParallelResultsAnyLevel(d, level) == SummaryLines(d)

DisplayParallelResults(d, level) ==
    IF level > LoggingINFO THEN <<>> ELSE SummaryLines(d)

\* run_parallel(commands, max_workers=, show_progress=, show_summary=) called
\* by the program: every command is submitted to the executor
CallRunParallel(commands, max_workers, show_progress, show_summary) ==
    /\ pc = "idle"
    /\ pc' = "collect"
    /\ batch' = [NoBatch EXCEPT !.commands = commands,
                                !.max_workers = max_workers,
                                !.show_progress = show_progress,
                                !.show_summary = show_summary]
    /\ tasks' = [t \in TaskIds |->
                    IF t <= Len(commands)
                    THEN [NoTask EXCEPT !.st = "queued", !.cmd = commands[t]]
                    ELSE NoTask]
    /\ queue' = [i \in 1..Len(commands) |-> i]
    /\ results' = <<>>
    /\ UNCHANGED <<ret, procs, spawned, console, sys_stdout, sys_stderr,
                   handle,
                   finished, otherVars>>

\* the invocations a worker thread is executing
Running == {t \in TaskIds : tasks[t].st \in {"reading_stdout", "reading_stderr"}}

\* an executor that starts a thread for every work item
WorkerAlwaysFree == TRUE

\* a worker thread is free to pick up the next work item
WorkerFree == Cardinality(Running) < batch.max_workers

\* a worker takes the next command of the queue and calls
\* run(cmd, output_mode="capture", check=False)
WorkerTake(t) ==
    /\ pc \in {"collect", "abort"}
    /\ queue # <<>>
    /\ t = Head(queue)
    /\ WorkerFree
    /\ queue' = Tail(queue)
    /\ \E b \in Behaviours(tasks[t].cmd, FALSE, "None", BatchLines) :
          EnterRun(t, tasks[t].cmd, FALSE, "capture", FALSE, "None", b[1], b[2])
    /\ UNCHANGED <<pc, ret, sys_stdout, sys_stderr, batch, results, handle,
                   otherVars>>

\* a loop without its except clause: every exception of a run leaves it
CollectEntryUncaught(outcome) ==
    IF outcome.kind = "return"
    THEN [caught |-> TRUE, res |-> outcome.value, exc |-> NoError]
    ELSE [caught |-> FALSE, res |-> ShellResult("", "", 0, -1),
          exc |-> outcome.exc]

\* what the loop does with a completed future: the entry it records, or the
\* exception that leaves the loop
CollectEntry(outcome) ==
    IF outcome.kind = "return"
    THEN [caught |-> TRUE, res |-> outcome.value, exc |-> NoError]
    ELSE IF outcome.exc.type = "FileNotFoundError"
    THEN [caught |-> TRUE, res |-> ShellResult("", outcome.exc.msg, 1, -1),
          exc |-> NoError]
    ELSE [caught |-> FALSE, res |-> ShellResult("", "", 0, -1),
          exc |-> outcome.exc]

\* `if progress and task:` with the progress bar shown
ProgressAdvances(show_progress) == show_progress /\ FirstTaskID # 0

\* as_completed(future_to_cmd) starts: the futures that have completed by
\* now are set apart from the pending ones
AsCompleted ==
    /\ pc = "collect"
    /\ ~batch.iterating
    /\ batch' = [batch EXCEPT
                    !.iterating = TRUE,
                    !.already = {t \in 1..Len(batch.commands) :
                                    tasks[t].st = "done"}]
    /\ UNCHANGED <<pc, ret, tasks, procs, spawned, console, sys_stdout,
                   sys_stderr, queue, results, handle, finished, otherVars>>

\* the place of invocation t in the order in which the invocations ended
EndedAt(t) == CHOOSE i \in DOMAIN finished : finished[i] = t

\* an as_completed that yields the completed futures in any order
YieldsAnyCompleted(t) == TRUE

\* as_completed yields future t next: the futures that had completed when it
\* was called come first, in the order of a set; the others follow in the
\* order in which they complete
YieldsNext(t) ==
    \/ t \in batch.already
    \/ /\ batch.already \subseteq batch.processed
       /\ \A u \in 1..Len(batch.commands) :
             (tasks[u].st = "done" /\ u \notin batch.processed)
                => EndedAt(t) <= EndedAt(u)

\* one turn of `for future in as_completed(future_to_cmd)`
Collect(t) ==
    /\ pc = "collect"
    /\ batch.iterating
    /\ tasks[t].st = "done"
    /\ t \notin batch.processed
    /\ YieldsNext(t)
    /\ LET entry == CollectEntry(tasks[t].outcome) IN
       IF entry.caught
       THEN /\ results' = DictSet(results, tasks[t].cmd, entry.res)
            /\ batch' = [batch EXCEPT
                            !.processed = @ \cup {t},
                            !.advanced = IF ProgressAdvances(batch.show_progress)
                                         THEN @ + 1 ELSE @]
            /\ UNCHANGED pc
       ELSE /\ pc' = "abort"
            /\ batch' = [batch EXCEPT !.processed = @ \cup {t},
                                      !.pending = entry.exc]
            /\ UNCHANGED results
    /\ UNCHANGED <<ret, tasks, procs, spawned, console, sys_stdout, sys_stderr,
                   queue, handle,
                   finished, otherVars>>

\* a loop that stops at the first completed future
AnyCollected ==
    batch.commands = <<>> \/ \E t \in 1..Len(batch.commands) : t \in batch.processed

\* as_completed is exhausted: every future has been handed to the loop
AllCollected == \A t \in 1..Len(batch.commands) : t \in batch.processed

\* the executor's shutdown(wait=True): every work item has been run
AllFinished == \A t \in 1..Len(batch.commands) : tasks[t].st = "done"

\* the loop has finished: the executor shuts down, the summary is shown and
\* run_parallel returns results
BatchReturn(level) ==
    /\ pc = "collect"
    /\ batch.iterating
    /\ AllCollected
    /\ AllFinished
    /\ console' = IF batch.show_summary
                  THEN console \o DisplayParallelResults(results, level)
                  ELSE console
    /\ batch' = [batch EXCEPT !.level = level]
    /\ pc' = "done"
    /\ ret' = Returned(results)
    /\ UNCHANGED <<tasks, procs, spawned, sys_stdout, sys_stderr, queue,
                   results, handle,
                   finished, otherVars>>

\* an exception left the loop: the executor shuts down, waiting for every
\* work item, and the exception leaves run_parallel
BatchRaise ==
    /\ pc = "abort"
    /\ AllFinished
    /\ pc' = "done"
    /\ ret' = Raised(batch.pending)
    /\ UNCHANGED <<tasks, procs, spawned, console, sys_stdout, sys_stderr,
                   batch, queue, results, handle,
                   finished, otherVars>>

(***************************************************************************)
(* The program calls run() once.                                           *)
(***************************************************************************)
Next ==
    \/ \E c \in Commands, k \in BOOLEAN, m \in OutputModes, d \in BOOLEAN,
          w \in Cwds : CallRun(c, k, m, d, w)
    \/ RunStep(1)

Spec == Init /\ [][Next]_vars

(***************************************************************************)
(* The program calls run() and, when that call has ended, calls run()      *)
(* again with the same command and options.                                *)
(***************************************************************************)
CallRunAgain ==
    /\ pc = "done"
    /\ tasks[1].st = "done"
    /\ tasks[2].st = "unused"
    /\ batch = NoBatch
    /\ \E b \in Behaviours(tasks[1].cmd, tasks[1].dry_run, tasks[1].cwd, Lines) :
          EnterRun(2, tasks[1].cmd, tasks[1].check, tasks[1].mode,
                   tasks[1].dry_run, tasks[1].cwd, b[1], b[2])
    /\ pc' = IF tasks'[2].st = "done" THEN "done" ELSE "run"
    /\ ret' = tasks'[2].outcome
    /\ UNCHANGED <<sys_stdout, sys_stderr, batch, queue, results, handle,
                   otherVars>>

NextTwice ==
    \/ Next
    \/ CallRunAgain
    \/ RunStep(2)

SpecTwice == Init /\ [][NextTwice]_vars

(***************************************************************************)
(* The program calls run_parallel() once.                                  *)
(***************************************************************************)
CommandLists == UNION {[1..n -> BatchCommands] : n \in 0..MaxCmds}

NextBatch ==
    \/ \E cs \in CommandLists, w \in 1..MaxWorkers, p \in BOOLEAN, s \in BOOLEAN :
          CallRunParallel(cs, w, p, s)
    \/ \E t \in TaskIds : WorkerTake(t)
    \/ \E t \in TaskIds : RunStep(t)
    \/ AsCompleted
    \/ \E t \in TaskIds : Collect(t)
    \/ \E l \in LogLevels : BatchReturn(l)
    \/ BatchRaise

SpecBatch == Init /\ [][NextBatch]_vars

(***************************************************************************)
(* The program calls run() or run_parallel() once.                         *)
(***************************************************************************)
NextProgram ==
    \/ Next
    \/ NextBatch

SpecProgram == Init /\ [][NextProgram]_vars

(***************************************************************************)
(* run_background, and what the program does with the Popen object it      *)
(* gets: `return subprocess.Popen(args, cwd=cwd)`. The child inherits the  *)
(* caller's stdout and stderr: it has no pipes and its writes never block. *)
(***************************************************************************)
\* Popen(args, cwd=cwd) that started a child
PopenBackground(pid, script, code) ==
    [NoProc EXCEPT !.created = TRUE, !.alive = TRUE, !.pid = pid,
                   !.script = script, !.planned = Len(script), !.code = code,
                   !.popen = TRUE]

\* run_background(command, cwd=) called by the program, up to the start of
\* the child: shlex.split, then Popen, whose exceptions are not caught
CallRunBackground(command, cwd) ==
    LET args == ShlexSplit(command).tokens
        step == EntryStep(command, FALSE, cwd)
        entered == [NoTask EXCEPT !.cmd = command, !.cwd = cwd, !.args = args]
        ended(o) == [entered EXCEPT !.st = "done", !.outcome = o]
    IN  /\ pc = "idle"
        /\ \E b \in Behaviours(command, FALSE, cwd, Lines) :
              procs' = [procs EXCEPT ![1] =
                  CASE step = "spawn" -> PopenBackground(spawned + 1, b[1], b[2])
                    [] step = "fail" -> [NoProc EXCEPT !.popen = TRUE]
                    [] OTHER -> NoProc]
        /\ tasks' = [tasks EXCEPT ![1] =
              CASE step = "split" ->
                       ended(Raised(Exc("ValueError", "No closing quotation")))
                [] step = "fail" -> ended(Raised(PopenError(args, cwd)))
                [] OTHER -> [entered EXCEPT !.st = "background"]]
        /\ spawned' = IF step = "spawn" THEN spawned + 1 ELSE spawned
        /\ pc' = IF step = "spawn" THEN "spawning" ELSE "done"
        /\ ret' = tasks'[1].outcome
        /\ UNCHANGED <<console, sys_stdout, sys_stderr, batch, queue, results,
                       handle,
                       finished, otherVars>>

\* a call that, like subprocess.run, gives the process only once it has finished
PopenWaits(proc) == proc.created /\ ~proc.alive

\* Popen gives the process object as soon as the process is created
PopenReturns(proc) == proc.created

\* run_background returns the Popen object
BackgroundReturn ==
    /\ pc = "spawning"
    /\ PopenReturns(procs[1])
    /\ pc' = "bg"
    /\ ret' = Returned([pid |-> procs[1].pid])
    /\ UNCHANGED <<tasks, procs, spawned, console, sys_stdout, sys_stderr,
                   batch, queue, results, handle,
                   finished, otherVars>>

\* the background child writes the next line of its script to the stdout or
\* stderr it inherited
BgChildWrite ==
    /\ tasks[1].st = "background"
    /\ procs[1].alive
    /\ procs[1].script # <<>>
    /\ LET stream == Head(procs[1].script)[1]
           line == Head(procs[1].script)[2]
       IN  IF stream = "stdout"
           THEN /\ sys_stdout' = Append(sys_stdout, line)
                /\ procs' = [procs EXCEPT ![1].wrote_out = Append(@, line),
                                          ![1].script = Tail(@)]
                /\ UNCHANGED sys_stderr
           ELSE /\ sys_stderr' = Append(sys_stderr, line)
                /\ procs' = [procs EXCEPT ![1].wrote_err = Append(@, line),
                                          ![1].script = Tail(@)]
                /\ UNCHANGED sys_stdout
    /\ UNCHANGED <<pc, ret, tasks, spawned, console, batch, queue, results,
                   handle,
                   finished, otherVars>>

\* what poll() gives: the exit code it already knows, None while the child
\* runs, the exit code once the child has finished
PollValue(h, proc) ==
    IF h.returncode # None THEN h.returncode
    ELSE IF proc.alive THEN None
    ELSE Some(proc.code)

\* the program calls poll() on the handle
Poll ==
    /\ pc = "bg"
    /\ Len(handle.log) < MaxPolls
    /\ LET v == PollValue(handle, procs[1]) IN
       /\ handle' = [returncode |-> v,
                     log |-> Append(handle.log,
                                    [op |-> "poll", value |-> v,
                                     running |-> procs[1].alive])]
       /\ procs' = IF v # None THEN [procs EXCEPT ![1].reaped = TRUE] ELSE procs
    /\ UNCHANGED <<pc, ret, tasks, spawned, console, sys_stdout, sys_stderr,
                   batch, queue, results,
                   finished, otherVars>>

\* the program's wait() on the handle returns: the child has finished
Wait ==
    /\ pc = "bg"
    /\ Len(handle.log) < MaxPolls
    /\ handle.returncode # None \/ ~procs[1].alive
    /\ LET v == PollValue(handle, procs[1]) IN
       /\ handle' = [returncode |-> v,
                     log |-> Append(handle.log,
                                    [op |-> "wait", value |-> v,
                                     running |-> procs[1].alive])]
       /\ procs' = [procs EXCEPT ![1].reaped = TRUE]
    /\ UNCHANGED <<pc, ret, tasks, spawned, console, sys_stdout, sys_stderr,
                   batch, queue, results,
                   finished, otherVars>>

(***************************************************************************)
(* The program calls run_background() once and uses the handle.            *)
(***************************************************************************)
NextBackground ==
    \/ \E c \in Commands, w \in Cwds : CallRunBackground(c, w)
    \/ BackgroundReturn
    \/ BgChildWrite
    \/ ChildExit(1)
    \/ Poll
    \/ Wait

SpecBackground == Init /\ [][NextBackground]_vars

(***************************************************************************)
(* cli.selection: a menu the user moves in with the arrow keys.            *)
(***************************************************************************)
\* number of entries of the choices list, and of keys the user presses, at most
MaxChoices == 3
MaxKeys == 3

ChoiceLists == UNION {[1..n -> {"x", "y"}] : n \in 0..MaxChoices}
\* what _get_key gives: "" stands for every key that is no arrow and not Enter
Keys == {"UP", "DOWN", "ENTER", ""}

\* the shell wrapper's variables, which the other utilities leave alone
shellVars == <<pc, ret, tasks, procs, spawned, console, sys_stdout, sys_stderr,
               batch, queue, results, handle, finished>>

\* selection(message, choices) called by the program, up to the first key
CallSelection(choices) ==
    /\ menu.st = "idle"
    /\ menu' = IF choices = <<>>
               THEN [NoMenu EXCEPT
                       !.st = "done",
                       !.ret = Raised(Exc("ValueError",
                           "Cannot make a selection from an empty list of choices."))]
               ELSE [NoMenu EXCEPT !.st = "reading", !.choices = choices,
                                   !.current_index = 0]
    /\ UNCHANGED <<shellVars, fs, sym, disk, build>>

\* an UP that stops at the first entry
MoveUpNoWrap(index, n) == IF index = 0 THEN 0 ELSE index - 1

\* (current_index - 1) % len(choices) and (current_index + 1) % len(choices)
MoveUp(index, n) == (index - 1) % n
MoveDown(index, n) == (index + 1) % n

\* one turn of `while True`: a key is read and acted on
KeyPress(key) ==
    /\ menu.st = "reading"
    /\ Len(menu.keys) < MaxKeys
    /\ LET n == Len(menu.choices) IN
       menu' = [menu EXCEPT
          !.keys = Append(@, key),
          !.current_index =
              IF key = "UP" THEN MoveUp(@, n)
              ELSE IF key = "DOWN" THEN MoveDown(@, n)
              ELSE @,
          !.st = IF key = "ENTER" THEN "done" ELSE @,
          !.ret = IF key = "ENTER"
                  THEN Returned(menu.choices[menu.current_index + 1])
                  ELSE @]
    /\ UNCHANGED <<shellVars, fs, sym, disk, build>>

\* Ctrl+C: _get_key raises KeyboardInterrupt and fatal(..., exit_code=0)
\* raises typer.Exit
KeyInterrupt ==
    /\ menu.st = "reading"
    /\ Len(menu.keys) < MaxKeys
    /\ menu' = [menu EXCEPT !.keys = Append(@, "CTRL_C"), !.st = "done",
                            !.ret = Raised(Exc("Exit", "0"))]
    /\ UNCHANGED <<shellVars, fs, sym, disk, build>>

NextSelection ==
    \/ \E c \in ChoiceLists : CallSelection(c)
    \/ \E k \in Keys : KeyPress(k)
    \/ KeyInterrupt

SpecSelection == Init /\ [][NextSelection]_vars

(***************************************************************************)
(* files.create_symlink. The names of Paths stand for absolute paths; the  *)
(* target never leads through link_path.                                   *)
(***************************************************************************)
\* what a symbolic link can point to: a file, a directory, nothing
LinkDests == {"f", "d", "m"}

\* the file systems create_symlink is called in
FileSystems ==
    {[NoFiles EXCEPT !["f"] = File, !["d"] = Dir, !["t"] = t, !["l"] = l] :
        t \in {Missing, File, Dir} \cup {Symlink(p) : p \in LinkDests},
        l \in {Missing, File, Dir} \cup {Symlink(p) : p \in LinkDests \cup {"t"}}}

\* Path.resolve(): the path with every symbolic link followed
RECURSIVE Resolve(_, _)
Resolve(files, p) ==
    IF files[p].kind = "symlink" THEN Resolve(files, files[p].dest) ELSE p

\* Path.exists() and Path.is_dir() follow symbolic links, Path.is_symlink()
\* does not
Exists(files, p) == files[Resolve(files, p)].kind # "missing"
IsDir(files, p) == files[Resolve(files, p)].kind = "dir"
IsSymlink(files, p) == files[p].kind = "symlink"

\* a create_symlink that clears link_path before it looks at the target
CreateSymlinkClearingFirst(files, target, link, overwrite) ==
    LET cleared == IF overwrite THEN [files EXCEPT ![link] = Missing] ELSE files
    IN  IF ~Exists(cleared, target)
        THEN [fs |-> cleared,
              ret |-> Raised(Exc("FileNotFoundError",
                                 "Symlink target does not exist: " \o target))]
        ELSE [fs |-> [cleared EXCEPT ![link] = Symlink(Resolve(cleared, target))],
              ret |-> Returned("None")]

\* create_symlink(target, link_path, overwrite=...): the files it leaves and
\* how it ends. shutil.rmtree refuses a symbolic link with OSError.
CreateSymlink(files, target, link, overwrite) ==
    IF ~Exists(files, target)
    THEN [fs |-> files,
          ret |-> Raised(Exc("FileNotFoundError",
                             "Symlink target does not exist: " \o target))]
    ELSE IF (Exists(files, link) \/ IsSymlink(files, link)) /\ ~overwrite
    THEN [fs |-> files,
          ret |-> Raised(Exc("FileExistsError",
                             "Link path already exists: " \o link))]
    ELSE IF (Exists(files, link) \/ IsSymlink(files, link))
            /\ IsDir(files, link) /\ IsSymlink(files, link)
    THEN [fs |-> files,
          ret |-> Raised(Exc("OSError", "Cannot call rmtree on a symbolic link"))]
    ELSE LET cleared == [files EXCEPT ![link] = Missing]
         IN  [fs |-> [cleared EXCEPT ![link] = Symlink(Resolve(cleared, target))],
              ret |-> Returned("None")]

CallCreateSymlink(target, overwrite) ==
    /\ sym.st = "idle"
    /\ LET after == CreateSymlink(fs, target, "l", overwrite) IN
         /\ fs' = after.fs
         /\ sym' = [st |-> "done", target |-> target, link_path |-> "l",
                    overwrite |-> overwrite, before |-> fs["l"],
                    ret |-> after.ret]
    /\ UNCHANGED <<shellVars, menu, disk, build>>

InitSymlink ==
    /\ ShellInit
    /\ menu = NoMenu
    /\ sym = NoSym
    /\ disk = NoDisk
    /\ build = NoBuild
    /\ fs \in FileSystems

NextSymlink ==
    \E target \in {"t", "f", "m"}, overwrite \in BOOLEAN :
        CallCreateSymlink(target, overwrite)

SpecSymlink == InitSymlink /\ [][NextSymlink]_vars

(***************************************************************************)
(* builder.build_project, for a project named "p". Its statements that     *)
(* touch the file system are steps of their own, and another process may   *)
(* create the same directory between any two of them.                      *)
(***************************************************************************)
\* the step after the logging configuration, after the Bash components and
\* after the Python components
AfterLogging(b) ==
    IF b.include_bash THEN "bash_copy"
    ELSE IF b.include_python THEN "python_copy" ELSE "finish"
AfterBash(b) == IF b.include_python THEN "python_copy" ELSE "finish"

\* the step went through: the project directory gains and loses entries
StepDone(next, added, removed) ==
    /\ build' = [build EXCEPT !.st = next]
    /\ disk' = [disk EXCEPT !.content = (@ \ removed) \cup added]

\* the step raised OSError, having left part of its work behind
StepFailed(step, left) ==
    /\ build' = [build EXCEPT !.st = "except", !.pending = Exc("OSError", step)]
    /\ disk' = [disk EXCEPT !.content = @ \cup left]

\* build_project(...) called: the pre-flight check of project_dir.exists()
CallBuildProject(include_bash, include_python) ==
    /\ build.st = "idle"
    /\ build' = IF disk.exists
                THEN [NoBuild EXCEPT
                        !.st = "done",
                        !.include_bash = include_bash,
                        !.include_python = include_python,
                        !.ret = Raised(Exc("FileExistsError",
                                           "The directory 'p' already exists."))]
                ELSE [NoBuild EXCEPT !.st = "mkdir",
                                     !.include_bash = include_bash,
                                     !.include_python = include_python]
    /\ UNCHANGED <<shellVars, menu, fs, sym, disk>>

\* project_dir.mkdir(parents=True): FileExistsError when the directory is
\* there by now, and like every step it can fail with another OSError
Mkdir ==
    /\ build.st = "mkdir"
    /\ \/ /\ disk.exists
          /\ build' = [build EXCEPT !.st = "except",
                          !.pending = Exc("FileExistsError", "mkdir")]
          /\ disk' = disk
       \/ /\ ~disk.exists
          /\ build' = [build EXCEPT !.st = "logging", !.made = TRUE]
          /\ disk' = [exists |-> TRUE, maker |-> "build", content |-> {}]
       \/ /\ ~disk.exists
          /\ build' = [build EXCEPT !.st = "except",
                          !.pending = Exc("OSError", "mkdir")]
          /\ disk' = disk
    /\ UNCHANGED <<shellVars, menu, fs, sym>>

\* create_project_logging_config: the logs directory, then the JSON file
LoggingConfig ==
    /\ build.st = "logging"
    /\ \/ StepDone(AfterLogging(build), {"logs", "logging_config.json"}, {})
       \/ \E left \in {{}, {"logs"}, {"logs", "logging_config.json"}} :
             StepFailed("logging", left)
    /\ UNCHANGED <<shellVars, menu, fs, sym>>

\* shutil.copytree(paths.BASH_TEMPLATE_DIR, bash_dest)
BashCopy ==
    /\ build.st = "bash_copy"
    /\ \/ StepDone("bash_rename", {"bash", "bash/template.sh"}, {})
       \/ \E left \in {{}, {"bash"}} : StepFailed("bash_copy", left)
    /\ UNCHANGED <<shellVars, menu, fs, sym>>

\* template_sh.rename(project_sh); _make_executable keeps its OSError
BashRename ==
    /\ build.st = "bash_rename"
    /\ \/ StepDone(AfterBash(build), {"bash/p.sh"}, {"bash/template.sh"})
       \/ StepFailed("bash_rename", {})
    /\ UNCHANGED <<shellVars, menu, fs, sym>>

\* shutil.copytree(paths.PYTHON_TEMPLATE_DIR, python_dest)
PythonCopy ==
    /\ build.st = "python_copy"
    /\ \/ StepDone("python_rename", {"python", "python/main.py"}, {})
       \/ \E left \in {{}, {"python"}} : StepFailed("python_copy", left)
    /\ UNCHANGED <<shellVars, menu, fs, sym>>

\* template_py.rename(project_py)
PythonRename ==
    /\ build.st = "python_rename"
    /\ \/ StepDone("finish", {"python/p.py"}, {"python/main.py"})
       \/ StepFailed("python_rename", {})
    /\ UNCHANGED <<shellVars, menu, fs, sym>>

\* the end of the try block: the project is announced, build_project returns
BuildFinish ==
    /\ build.st = "finish"
    /\ build' = [build EXCEPT !.st = "done", !.ret = Returned("None")]
    /\ UNCHANGED <<shellVars, menu, fs, sym, disk>>

\* an except clause that leaves the directory as it is
CleanUpNothing(d) == d

\* if project_dir.exists(): shutil.rmtree(project_dir)
CleanUp(d) == IF d.exists THEN NoDisk ELSE d

\* except (OSError, FileExistsError): clean up and re-raise
BuildExcept ==
    /\ build.st = "except"
    /\ disk' = CleanUp(disk)
    /\ build' = [build EXCEPT !.st = "done", !.ret = Raised(build.pending)]
    /\ UNCHANGED <<shellVars, menu, fs, sym>>

\* another process makes a directory at project_dir, empty or with a file of
\* its own
OtherCreates ==
    /\ ~disk.exists
    /\ \E content \in {{}, {"theirs"}} :
          disk' = [exists |-> TRUE, maker |-> "other", content |-> content]
    /\ UNCHANGED <<shellVars, menu, fs, sym, build>>

NextBuild ==
    \/ \E include_bash \in BOOLEAN, include_python \in BOOLEAN :
          CallBuildProject(include_bash, include_python)
    \/ Mkdir
    \/ LoggingConfig
    \/ BashCopy
    \/ BashRename
    \/ PythonCopy
    \/ PythonRename
    \/ BuildFinish
    \/ BuildExcept
    \/ OtherCreates

SpecBuild == Init /\ [][NextBuild]_vars

(***************************************************************************)
(* Properties of run(), for the specification Spec.                        *)
(***************************************************************************)
\* the run() call the program made, its child, and what the child wrote
TheRun == tasks[1]
TheChild == procs[1]
RunEnded == pc = "done" /\ TheRun.st = "done"

\* the text of the lines a child wrote, as the text layer decodes it
TextOf(lines) == Join([i \in DOMAIN lines |-> UniversalNewlines(lines[i])])
ChildStdout == TextOf(TheChild.wrote_out)
ChildStderr == TextOf(TheChild.wrote_err)

\* C1: run() returns for every child that writes a finite amount to stdout
\* and stderr in any order and then exits, the pipes being of bounded
\* capacity. The children of the model have finite scripts, so run() returns
\* unless it reaches a state where neither it nor its child can take a step:
\* as long as run() is in progress, a step of run() or of its child is
\* possible.
C1_RunNeverBlocked == pc = "run" => ENABLED RunStep(1)

\* C2: when the process exits non-zero, run(check=True) raises
\* CalledProcessError with the exit code, stdout and stderr of the process,
\* the same three that run(check=False) returns in its ShellResult.
C2_FailureCarriesResult ==
    (RunEnded /\ TheChild.created /\ TheChild.code # 0) =>
        IF TheRun.check
        THEN /\ ret.kind = "raise"
             /\ ret.exc.type = "CalledProcessError"
             /\ ret.exc.returncode = TheChild.code
             /\ ret.exc.output = ChildStdout
             /\ ret.exc.stderr = ChildStderr
        ELSE /\ ret.kind = "return"
             /\ ret.value.returncode = TheChild.code
             /\ ret.value.stdout = ChildStdout
             /\ ret.value.stderr = ChildStderr

C2_Witness ==
    /\ RunEnded /\ TheChild.created /\ TheChild.code # 0 /\ TheRun.check
    /\ ret.kind = "raise"
    /\ ChildStdout # "" /\ ChildStderr # ""

\* C3: when a process was spawned, run() raises CalledProcessError if and only
\* if check is true and the exit code is not 0; otherwise it returns a
\* ShellResult whose returncode is the exit code of the process.
C3_RaisesIffCheckAndNonZero ==
    (RunEnded /\ TheChild.created) =>
        /\ (ret.kind = "raise") <=> (TheRun.check /\ TheChild.code # 0)
        /\ ret.kind = "raise" => ret.exc.type = "CalledProcessError"
        /\ ret.kind # "raise" =>
              ret.kind = "return" /\ ret.value.returncode = TheChild.code

C3_Witness ==
    /\ RunEnded /\ TheChild.created /\ TheChild.code # 0 /\ ~TheRun.check
    /\ ret.kind = "return" /\ ret.value.returncode # 0

\* the first token of the run's command names no file at all
NotLocated ==
    /\ ShlexSplit(TheRun.cmd).ok
    /\ ShlexSplit(TheRun.cmd).tokens # <<>>
    /\ ShlexSplit(TheRun.cmd).tokens[1] \notin Executables \cup NotExecutable

\* C4: when the executable named by the first token cannot be located, a run()
\* that is not a dry run raises FileNotFoundError "Command not found: <first
\* token>" whether check is true or false; no process is started and no
\* ShellResult is returned.
C4_NotFoundAlwaysRaised ==
    (TheRun.st # "unused" /\ ~TheRun.dry_run /\ NotLocated) =>
        /\ RunEnded
        /\ ret = Raised(Exc("FileNotFoundError",
                            "Command not found: "
                                \o ShlexSplit(TheRun.cmd).tokens[1]))
        /\ ~TheChild.created
        /\ spawned = 0

C4_Witness ==
    /\ TheRun.st # "unused" /\ ~TheRun.dry_run /\ NotLocated /\ ~TheRun.check
    /\ TheRun.cmd = "nope -x"
    /\ ret.kind = "raise" /\ ret.exc.msg = "Command not found: nope"

\* C5: run(cmd, dry_run=True) spawns no process, whatever the command and the
\* other options: it reports the command once to the diagnostic sink and
\* returns a result with pid -1, returncode 0 and empty stdout and stderr.
C5_DryRunSpawnsNothing ==
    (TheRun.st # "unused" /\ TheRun.dry_run) =>
        /\ RunEnded
        /\ ret = Returned(ShellResult("", "", 0, -1))
        /\ spawned = 0
        /\ ~TheChild.created
        /\ console = <<SinkCall("info",
                                "[DRY RUN] Would execute: [bold]" \o TheRun.cmd
                                    \o "[/bold]", "", "")>>
        /\ sys_stdout = <<>> /\ sys_stderr = <<>>

C5_Witness ==
    /\ TheRun.st # "unused" /\ TheRun.dry_run
    /\ TheRun.cmd = "sh -c" /\ TheRun.mode = "stream" /\ TheRun.cwd = "None"
    /\ ret.kind = "return" /\ ret.value.pid = -1

(***************************************************************************)
(* Properties of run_parallel(), for the specification SpecBatch.          *)
(***************************************************************************)
Submitted == 1..Len(batch.commands)
CommandSet == {batch.commands[i] : i \in Submitted}

\* what the run of command t produced by itself: the result of its own child
OwnResult(t) ==
    ShellResult(TextOf(procs[t].wrote_out), TextOf(procs[t].wrote_err),
                procs[t].code, procs[t].pid)

\* the entry run_parallel is to record for a command that was not found
NotFoundEntry(command) ==
    ShellResult("", "Command not found: " \o ShlexSplit(command).tokens[1], 1, -1)

\* the executable of the command is not found
IsNotFound(command) ==
    /\ ShlexSplit(command).ok
    /\ ShlexSplit(command).tokens # <<>>
    /\ ShlexSplit(command).tokens[1] \notin Executables \cup NotExecutable

\* the command spawns a process
IsSpawned(command) ==
    /\ ShlexSplit(command).ok
    /\ ShlexSplit(command).tokens # <<>>
    /\ ShlexSplit(command).tokens[1] \in Executables

\* C6: run_parallel never raises because of a failure of one command: for
\* every list of commands it returns a mapping, the errors being recorded in
\* the entries of their commands.
C6_BatchNeverRaises ==
    pc = "done" =>
        /\ ret.kind = "return"
        /\ \A t \in Submitted :
              tasks[t].outcome.kind = "raise" =>
                 /\ tasks[t].cmd \in DictKeys(ret.value)
                 /\ DictGet(ret.value, tasks[t].cmd).stderr = tasks[t].outcome.exc.msg

\* C7: run_parallel returns a mapping whose keys are exactly the distinct
\* commands submitted, each entry being the result of an execution of that
\* command itself (the synthetic entry when it failed to start), whatever the
\* outcomes of the other commands.
C7_MappingOfOwnResults ==
    pc = "done" =>
        /\ ret.kind = "return"
        /\ DictKeys(ret.value) = CommandSet
        /\ \A k \in DictKeys(ret.value) :
              \E t \in Submitted :
                 /\ tasks[t].cmd = k
                 /\ DictGet(ret.value, k) =
                       IF procs[t].created THEN OwnResult(t) ELSE NotFoundEntry(k)

\* What holds of the mapping whenever run_parallel does return (used in the
\* account of C7).
MappingWhenReturned ==
    (pc = "done" /\ ret.kind = "return") =>
        /\ DictKeys(ret.value) = CommandSet
        /\ \A k \in DictKeys(ret.value) :
              \E t \in Submitted :
                 /\ tasks[t].cmd = k
                 /\ DictGet(ret.value, k) =
                       IF procs[t].created THEN OwnResult(t) ELSE NotFoundEntry(k)

Children == {t \in TaskIds : procs[t].created /\ ~procs[t].reaped}

\* C9: at every moment of run_parallel at most max_workers commands are being
\* executed (at most max_workers children exist); the other commands wait.
C9_AtMostMaxWorkers ==
    pc # "idle" =>
        /\ Cardinality(Children) <= batch.max_workers
        /\ Cardinality(Running) <= batch.max_workers

C9_Witness ==
    /\ pc = "collect"
    /\ Cardinality(Children) = batch.max_workers
    /\ \A t \in Children : procs[t].alive
    /\ queue # <<>>

\* C10: run_parallel returns only after every submitted command has
\* terminated or failed to start: when it returns (or raises) no child of the
\* batch is running or unreaped and no command is still queued, and when it
\* returns every distinct command has an entry of the mapping.
C10_ReturnsAfterAll ==
    pc = "done" =>
        /\ queue = <<>>
        /\ \A t \in Submitted :
              /\ tasks[t].st = "done"
              /\ ~procs[t].alive
              /\ procs[t].created => procs[t].reaped
        /\ ret.kind = "return" => DictKeys(ret.value) = CommandSet

C10_Witness ==
    /\ pc = "done" /\ ret.kind = "return"
    /\ Len(batch.commands) = 2
    /\ spawned = 2
    /\ batch.commands[1] # batch.commands[2]
    /\ \A t \in Submitted : procs[t].reaped

(***************************************************************************)
(* More properties of run(), for the specification Spec.                   *)
(***************************************************************************)
\* C11: run() returns, or raises CalledProcessError, only after the process
\* it spawned has terminated: once the call has finished its child is not
\* running, has been waited for, and the caller's ends of both pipes are
\* closed; no pipe of a call that spawned nothing is open either.
C11_ReleasedOnReturn ==
    pc = "done" =>
        /\ ~TheChild.alive
        /\ TheChild.created => TheChild.reaped
        /\ ~TheChild.out_open /\ ~TheChild.err_open

C11_Witness ==
    /\ RunEnded /\ TheChild.created /\ TheChild.reaped
    /\ ret.kind = "raise" /\ ret.exc.type = "CalledProcessError"
    /\ TheChild.wrote_out # <<>> /\ TheChild.wrote_err # <<>>
    /\ ~TheChild.out_open /\ ~TheChild.err_open

\* What holds of the lines of each stream at every moment of a run (used in
\* the account of C13): the lines read so far, followed by the lines still in
\* the pipe, are the lines the child has written, each with "\r\n" turned
\* into "\n" and otherwise unchanged.
LinesKeptUpToTerminators ==
    TheChild.created =>
        /\ TheRun.stdout_lines
              \o [i \in DOMAIN TheChild.out |-> UniversalNewlines(TheChild.out[i])]
           = [i \in DOMAIN TheChild.wrote_out |->
                 UniversalNewlines(TheChild.wrote_out[i])]
        /\ TheRun.stderr_lines
              \o [i \in DOMAIN TheChild.err |-> UniversalNewlines(TheChild.err[i])]
           = [i \in DOMAIN TheChild.wrote_err |->
                 UniversalNewlines(TheChild.wrote_err[i])]

\* C13: for each stream, the text of the ShellResult is the concatenation of
\* the lines the process wrote to that stream, in the order they were written
\* and with their original line terminators.
C13_TextIsWhatWasWritten ==
    (RunEnded /\ TheChild.created /\ ret.kind = "return") =>
        /\ ret.value.stdout = Join(TheChild.wrote_out)
        /\ ret.value.stderr = Join(TheChild.wrote_err)

C12_HandleWithoutWaiting ==
    /\ pc = "spawning" => ENABLED BackgroundReturn
    /\ \A i \in DOMAIN handle.log :
          LET e == handle.log[i] IN
          /\ e.op = "poll" => (e.value = None <=> e.running)
          /\ e.value # None => e.value = Some(procs[1].code) /\ ~procs[1].alive
          /\ e.op = "wait" => ~e.running /\ e.value = Some(procs[1].code)

C12_Witness ==
    /\ pc = "bg"
    /\ handle.log = <<[op |-> "poll", value |-> None, running |-> TRUE],
                      [op |-> "wait", value |-> Some(2), running |-> FALSE],
                      [op |-> "poll", value |-> Some(2), running |-> FALSE]>>

(***************************************************************************)
(* More properties of run_parallel(), for the specification SpecBatch.     *)
(***************************************************************************)
\* C15: with show_progress the progress indicator is advanced once for each
\* completed command, when its result is recorded: while the loop runs it has
\* been advanced as many times as results were recorded, and len(commands)
\* times when run_parallel returns.
C15_ProgressOncePerCommand ==
    (batch.show_progress /\ (pc = "collect" \/ (pc = "done" /\ ret.kind = "return")))
        => /\ batch.advanced = Cardinality(batch.processed)
           /\ pc = "done" => batch.advanced = Len(batch.commands)

(***************************************************************************)
(* Properties of the results of run() and run_parallel(), for the          *)
(* specification SpecProgram.                                              *)
(***************************************************************************)
\* C16: every ShellResult produced by run or run_parallel has pid >= 0 if and
\* only if a process was created for it: the result a run returns carries the
\* pid of its process when it spawned one and -1 otherwise (dry run), and an
\* entry of run_parallel's mapping carries the pid of the process of a run of
\* its command, or -1 when that run started none (spawn failure).
C16_PidIffProcess ==
    /\ \A t \in TaskIds :
          tasks[t].outcome.kind = "return" =>
             /\ tasks[t].outcome.value.pid >= 0 <=> procs[t].created
             /\ tasks[t].outcome.value.pid =
                   IF procs[t].created THEN procs[t].pid ELSE -1
    /\ \A i \in DOMAIN results :
          \E t \in batch.processed :
             /\ tasks[t].cmd = results[i].cmd
             /\ results[i].res.pid >= 0 <=> procs[t].created
             /\ results[i].res.pid =
                   IF procs[t].created THEN procs[t].pid ELSE -1

C16_Witness ==
    /\ pc = "done" /\ ret.kind = "return"
    /\ batch.commands = <<"sh -c", "nope">>
    /\ procs[1].created /\ ~procs[2].created
    /\ DictGet(ret.value, "sh -c").pid = procs[1].pid
    /\ DictGet(ret.value, "sh -c").pid >= 0
    /\ DictGet(ret.value, "nope").pid = -1

(***************************************************************************)
(* Properties of run() on its input and its presentation, for the          *)
(* specification Spec.                                                     *)
(***************************************************************************)
\* the command of the run tokenizes to zero tokens
NoTokens == ShlexSplit(TheRun.cmd).ok /\ ShlexSplit(TheRun.cmd).tokens = <<>>

\* C17: a run() that is not a dry run, with a command that tokenizes to zero
\* tokens, is rejected before any spawn is attempted and before any pipe or
\* process is created: it raises, and Popen was not called, no pipe was made
\* and no process exists.
C17_EmptyCommandRejectedFirst ==
    (TheRun.st # "unused" /\ ~TheRun.dry_run /\ NoTokens) =>
        /\ RunEnded /\ ret.kind = "raise"
        /\ ~TheChild.popen
        /\ ~TheChild.piped
        /\ ~TheChild.created

\* the calls made on the presentation sink's framed_box
FrameCalls == SelectSeq(console, LAMBDA c : c.sink = "framed_box")

\* the text as it is, and what a frame-mode run is to show when the sink is
\* handed Shown(text) for the text of a stream
AsIs(text) == text

FrameModeShows(Shown(_)) ==
    TheRun.mode = "frame" =>
        /\ Len(FrameCalls) <= 1
        /\ ~RunEnded => FrameCalls = <<>>
        /\ (RunEnded /\ ~TheChild.created) => FrameCalls = <<>>
        /\ (RunEnded /\ TheChild.created) =>
              FrameCalls =
                 IF TheChild.code = 0
                 THEN IF ChildStdout = "" THEN <<>>
                      ELSE <<SinkCall("framed_box", Shown(ChildStdout),
                                      "Output of: [bold]" \o TheRun.cmd
                                          \o "[/bold]", "info")>>
                 ELSE IF ChildStderr = "" THEN <<>>
                      ELSE <<SinkCall("framed_box", Shown(ChildStderr),
                                      "Error from: [bold]" \o TheRun.cmd
                                          \o "[/bold]", "error")>>

OutcomeWhateverTheMode ==
    IF TheRun.dry_run THEN Returned(ShellResult("", "", 0, -1))
    ELSE IF ~ShlexSplit(TheRun.cmd).ok
    THEN Raised(Exc("ValueError", "No closing quotation"))
    ELSE IF ~TheChild.created
    THEN Raised(IF PopenError(TheRun.args, TheRun.cwd).type = "FileNotFoundError"
                THEN Exc("FileNotFoundError",
                         "Command not found: " \o TheRun.args[1])
                ELSE PopenError(TheRun.args, TheRun.cwd))
    ELSE IF TheRun.check /\ TheChild.code # 0
    THEN Raised(CalledProcessError(TheChild.code, TheRun.args, ChildStdout,
                                   ChildStderr))
    ELSE Returned(ShellResult(ChildStdout, ChildStderr, TheChild.code,
                              TheChild.pid))

\* C19: in capture and silent modes run() never writes to sys.stdout or
\* sys.stderr and never calls the presentation sink (a dry run reports to the
\* diagnostic sink, once, in both modes), and what a silent run gives is what
\* a capture run gives for the same process behaviour: the result or the
\* exception, and the sink calls, are determined by the command, check,
\* dry_run, cwd and the behaviour of the process, the same way in both modes.
C19_SilentIsCapture ==
    TheRun.mode \in {"capture", "silent"} =>
        /\ sys_stdout = <<>> /\ sys_stderr = <<>>
        /\ \A i \in DOMAIN console : console[i].sink \notin {"framed_box", "line"}
        /\ console = IF TheRun.st # "unused" /\ TheRun.dry_run
                     THEN <<SinkCall("info", "[DRY RUN] Would execute: [bold]"
                                                \o TheRun.cmd \o "[/bold]", "", "")>>
                     ELSE <<>>
        /\ RunEnded => ret = OutcomeWhateverTheMode

C19_Witness ==
    /\ RunEnded /\ TheRun.mode = "silent" /\ TheRun.check
    /\ TheChild.created /\ TheChild.code # 0
    /\ ChildStdout # "" /\ ChildStderr # ""
    /\ ret.kind = "raise" /\ console = <<>>

(***************************************************************************)
(* Properties of run_parallel's summary, for the specification SpecBatch.  *)
(***************************************************************************)
\* the status lines printed on the console
PrintCalls == SelectSeq(console, LAMBDA c : c.sink = "print")

\* the entries of mapping d whose frame has something to show
Framed(d) ==
    {i \in DOMAIN d : IF d[i].res.returncode = 0 THEN d[i].res.stdout # ""
                      ELSE d[i].res.stderr # ""}

\* C20: the summary of run_parallel is produced only when show_summary is
\* true, only once all commands have completed (nothing is shown before
\* run_parallel returns, nor when it raises), and only when the level of the
\* root logger is INFO or lower. When produced it has one status line for
\* each entry of the mapping, in the order of the mapping, a success line if
\* and only if the returncode of the entry is 0, and the framing helper has
\* run once for each entry: each frame comes right after a status line and
\* there is one for each entry that has something to show. At WARNING or
\* above nothing is shown.
C20_SummaryGated ==
    /\ console # <<>> =>
          /\ pc = "done" /\ ret.kind = "return"
          /\ batch.show_summary
          /\ batch.level <= LoggingINFO
          /\ \A t \in Submitted : tasks[t].st = "done"
    /\ (pc = "done" /\ ret.kind = "return" /\ batch.show_summary
           /\ batch.level <= LoggingINFO) =>
          /\ Len(PrintCalls) = Len(ret.value)
          /\ \A i \in DOMAIN ret.value :
                PrintCalls[i].text =
                   IF ret.value[i].res.returncode = 0
                   THEN " +--> [green]ok[/] '" \o ret.value[i].cmd \o "'"
                   ELSE " +--> [red]failed[/] '" \o ret.value[i].cmd \o "'"
          /\ Len(FrameCalls) = Cardinality(Framed(ret.value))
          /\ Len(console) = Len(PrintCalls) + Len(FrameCalls)
          /\ \A j \in DOMAIN console :
                console[j].sink = "framed_box" =>
                   j > 1 /\ console[j - 1].sink = "print"

C20_Witness ==
    /\ pc = "done" /\ ret.kind = "return"
    /\ batch.show_summary /\ batch.level = LoggingINFO
    /\ batch.commands = <<"sh", "nope">>
    /\ DictGet(ret.value, "sh").returncode = 0
    /\ DictGet(ret.value, "sh").stdout = ""
    /\ Len(PrintCalls) = 2 /\ Len(FrameCalls) = 1

\* the spawn of the run's process ends in a FileNotFoundError
SpawnNotFound ==
    /\ TheRun.st # "unused"
    /\ ~TheRun.dry_run
    /\ ShlexSplit(TheRun.cmd).ok
    /\ PopenError(TheRun.args, TheRun.cwd).type = "FileNotFoundError"

\* C29: every FileNotFoundError raised while spawning, also the one of a
\* working directory (cwd) that does not exist for a command whose
\* executable exists, leaves run() as FileNotFoundError "Command not found:
\* <first token>", carrying nothing of the original error, whatever check
\* and output_mode are.
C29_NotFoundNamesFirstToken ==
    SpawnNotFound =>
        /\ RunEnded
        /\ ret = Raised(Exc("FileNotFoundError",
                            "Command not found: " \o TheRun.args[1]))
        /\ DOMAIN ret.exc = {"type", "msg"}
        /\ console = <<>> /\ sys_stdout = <<>> /\ sys_stderr = <<>>

C29_Witness ==
    /\ SpawnNotFound
    /\ TheRun.cmd = "sh -c" /\ TheRun.cwd = "/missing"
    /\ ~TheRun.check /\ TheRun.mode = "frame"
    /\ ret = Raised(Exc("FileNotFoundError", "Command not found: sh"))

\* the run of the program ended with CalledProcessError
CommandFailed ==
    RunEnded /\ ret.kind = "raise" /\ ret.exc.type = "CalledProcessError"

\* C28: for a command that exits non-zero under check=True the presentation
\* step of the mode has happened exactly once when CalledProcessError is
\* raised: in frame mode the error panel, when stderr is not empty; in stream
\* mode the one blank separator, when either stream had content; nothing
\* otherwise.
C28_PresentedOnceBeforeRaise ==
    CommandFailed =>
        /\ TheRun.check /\ TheChild.code # 0
        /\ IF TheRun.mode = "frame" /\ ChildStderr # ""
           THEN /\ Len(console) = 1
                /\ console[1].sink = "framed_box"
                /\ console[1].style = "error"
                /\ console[1].title = "Error from: [bold]" \o TheRun.cmd \o "[/bold]"
           ELSE IF TheRun.mode = "stream" /\ (ChildStdout # "" \/ ChildStderr # "")
           THEN console = <<SinkCall("line", "", "", "")>>
           ELSE console = <<>>

C28_Witness ==
    /\ CommandFailed
    /\ TheRun.mode = "stream"
    /\ ChildStdout = "" /\ ChildStderr = "c"
    /\ sys_stderr = <<"c">>
    /\ console = <<SinkCall("line", "", "", "")>>

\* the run is in `for line in proc.stdout` with nothing to read: it waits for
\* the child to write to stdout, to close it or to exit
WaitingForStdout ==
    /\ TheRun.st = "reading_stdout"
    /\ TheChild.alive
    /\ TheChild.out = <<>>

\* C25: in stream mode every line is relayed to the caller's matching stream
\* as soon as the child has written it: a line the child wrote to stderr is
\* never left unrelayed while the run waits for the child's stdout.
C25_StderrRelayedAtOnce ==
    (TheRun.mode = "stream" /\ TheChild.err # <<>>) => ~WaitingForStdout

(***************************************************************************)
(* Properties of two run() calls in a row, for the specification SpecTwice.*)
(***************************************************************************)
\* the children of the two calls behaved identically: both calls spawned one
\* or neither did, and the children wrote the same lines to stdout and to
\* stderr and ended with the same exit code
SameChildBehaviour ==
    /\ procs[1].created = procs[2].created
    /\ procs[1].wrote_out = procs[2].wrote_out
    /\ procs[1].wrote_err = procs[2].wrote_err
    /\ procs[1].code = procs[2].code

\* two outcomes are the same exception, or results with the same stdout,
\* stderr and returncode
SameOutcome(o1, o2) ==
    /\ o1.kind = o2.kind
    /\ o1.kind = "raise" => o1.exc = o2.exc
    /\ o1.kind = "return" =>
          /\ o1.value.stdout = o2.value.stdout
          /\ o1.value.stderr = o2.value.stderr
          /\ o1.value.returncode = o2.value.returncode

LoopTurn(t) ==
    /\ pc = "collect"
    /\ tasks[t].st = "done"
    /\ t \notin batch.processed
    /\ batch'.processed = batch.processed \cup {t}
    /\ tasks' = tasks /\ procs' = procs /\ queue' = queue

\* C26: results are inserted into run_parallel's mapping only by the calling
\* thread, one completed future at a time: every step that changes the
\* mapping is one turn of the loop for one completed future, no worker takes
\* part in it, it sets the entry of that future's command, and every entry of
\* a command with a different string stays as it was.
C26_OnlyTheLoopInserts ==
    [][results' # results =>
          \E t \in 1..Len(batch.commands) :
             /\ LoopTurn(t)
             /\ DictKeys(results') = DictKeys(results) \cup {tasks[t].cmd}
             /\ Len(results') = Cardinality(DictKeys(results'))
             /\ DictGet(results', tasks[t].cmd) = CollectEntry(tasks[t].outcome).res
             /\ \A k \in DictKeys(results) \ {tasks[t].cmd} :
                   DictGet(results', k) = DictGet(results, k)]_vars

C26_Witness ==
    /\ pc = "collect"
    /\ batch.commands = <<"sh -c", "sh">>
    /\ batch.processed = {1, 2}
    /\ Len(results) = 2
    /\ results[1].cmd = "sh" /\ results[2].cmd = "sh -c"

\* the list entries that hold command string k, the one of them that
\* completed last, and the entry the loop records for list entry t
Duplicates(k) == {t \in Submitted : batch.commands[t] = k}
LastCompleted(D) == CHOOSE t \in D : \A u \in D : EndedAt(u) <= EndedAt(t)
EntryOf(t) == CollectEntry(tasks[t].outcome).res

\* run_parallel has returned: one process was spawned per list entry that
\* names an executable, and the mapping has one entry per distinct string
OneProcessPerEntryOneEntryPerString ==
    /\ spawned = Cardinality({t \in Submitted : IsSpawned(batch.commands[t])})
    /\ \A t \in Submitted : IsSpawned(batch.commands[t]) => procs[t].created
    /\ \A t, u \in Submitted :
          (t # u /\ procs[t].created /\ procs[u].created)
             => procs[t].pid # procs[u].pid
    /\ DictKeys(ret.value) = CommandSet
    /\ Len(ret.value) = Cardinality(CommandSet)

\* C27 as stated: with textually identical entries in the commands list,
\* run_parallel spawns one process per list entry, the mapping holds a single
\* entry for the string, and that entry is the result of whichever of the
\* duplicates completed last.
C27_LastCompletedWins ==
    (pc = "done" /\ ret.kind = "return") =>
        /\ OneProcessPerEntryOneEntryPerString
        /\ \A k \in CommandSet :
              DictGet(ret.value, k) = EntryOf(LastCompleted(Duplicates(k)))

\* C27, amended: with textually identical entries in the commands list,
\* run_parallel spawns one process per list entry, the mapping holds a single
\* entry for the string, and that entry is the result of the duplicate the
\* loop handled last: the duplicate that completed last when it completed
\* after the loop over as_completed had started, and one of the duplicates,
\* not always the last, when all of them had completed by then.
C27_LastHandledWins ==
    (pc = "done" /\ ret.kind = "return") =>
        /\ OneProcessPerEntryOneEntryPerString
        /\ \A k \in CommandSet :
              LET last == LastCompleted(Duplicates(k)) IN
              /\ \E t \in Duplicates(k) : DictGet(ret.value, k) = EntryOf(t)
              /\ last \notin batch.already
                    => DictGet(ret.value, k) = EntryOf(last)

C27_Witness ==
    /\ pc = "done" /\ ret.kind = "return"
    /\ batch.commands = <<"sh", "sh">>
    /\ finished = <<1, 2>>
    /\ batch.already = {1, 2}
    /\ Len(ret.value) = 1
    /\ DictGet(ret.value, "sh") = OwnResult(1)
    /\ OwnResult(1) # OwnResult(2)

(***************************************************************************)
(* Properties of cli.selection, for the specification SpecSelection.       *)
(***************************************************************************)
\* the index the keys lead to from index i in a menu of n entries: UP goes one
\* up and from the first entry to the last, DOWN one down and from the last
\* entry to the first, every other key stays
RECURSIVE IndexAfter(_, _, _)
IndexAfter(keys, i, n) ==
    IF keys = <<>> THEN i
    ELSE IndexAfter(Tail(keys),
                    IF Head(keys) = "UP" THEN (IF i = 0 THEN n - 1 ELSE i - 1)
                    ELSE IF Head(keys) = "DOWN" THEN (IF i = n - 1 THEN 0 ELSE i + 1)
                    ELSE i,
                    n)

\* C22: in selection() with a non-empty choices list the highlighted index
\* is, after every sequence of key presses, within 0..len(choices)-1: it
\* starts at 0, UP and DOWN move it by one, wrapping at both ends, any other
\* key leaves it unchanged, and ENTER ends the loop and returns
\* choices[index]. An empty choices list is rejected with ValueError before
\* any key is read.
C22_IndexStaysInMenu ==
    /\ (menu.st # "idle" /\ menu.choices # <<>>) =>
          /\ menu.current_index \in 0..(Len(menu.choices) - 1)
          /\ menu.current_index = IndexAfter(menu.keys, 0, Len(menu.choices))
          /\ (menu.keys # <<>> /\ menu.keys[Len(menu.keys)] = "ENTER") <=>
                (menu.st = "done" /\ menu.ret.kind = "return")
          /\ menu.ret.kind = "return" =>
                menu.ret.value = menu.choices[menu.current_index + 1]
    /\ (menu.st # "idle" /\ menu.choices = <<>>) =>
          /\ menu.st = "done"
          /\ menu.ret.kind = "raise" /\ menu.ret.exc.type = "ValueError"
          /\ menu.keys = <<>>

C22_Witness ==
    /\ menu.st = "done"
    /\ menu.choices = <<"x", "y", "x">>
    /\ menu.keys = <<"UP", "UP", "ENTER">>
    /\ menu.current_index = 1
    /\ menu.ret = Returned("y")

(***************************************************************************)
(* Properties of files.create_symlink, for the specification SpecSymlink.  *)
(***************************************************************************)
\* something is at link_path: a file, a directory, or a link, dangling or not
Occupied(node) == node.kind # "missing"

\* C23: create_symlink raises FileNotFoundError when the target does not
\* exist, and FileExistsError when (the target exists and) link_path exists
\* and overwrite is false; in both error cases whatever was at link_path is
\* still there, unchanged, also for a missing target with overwrite=True. On
\* success link_path is a symbolic link to the resolved target.
C23_SymlinkErrorsLeaveLink ==
    sym.st = "done" =>
       /\ ~Exists(fs, sym.target) =>
             /\ sym.ret.kind = "raise"
             /\ sym.ret.exc.type = "FileNotFoundError"
       /\ (Exists(fs, sym.target) /\ Occupied(sym.before) /\ ~sym.overwrite) =>
             /\ sym.ret.kind = "raise"
             /\ sym.ret.exc.type = "FileExistsError"
       /\ (sym.ret.kind = "raise"
             /\ sym.ret.exc.type \in {"FileNotFoundError", "FileExistsError"}) =>
             fs[sym.link_path] = sym.before
       /\ sym.ret.kind = "return" =>
             /\ fs[sym.link_path] = Symlink(Resolve(fs, sym.target))
             /\ fs[sym.link_path].dest \in {"t", "f", "d"}
             /\ Exists(fs, sym.link_path)

C23_Witness ==
    /\ sym.st = "done"
    /\ sym.overwrite
    /\ sym.target = "t"
    /\ fs["t"] = Symlink("m")
    /\ sym.before = Dir
    /\ fs["l"] = Dir
    /\ sym.ret = Raised(Exc("FileNotFoundError", "Symlink target does not exist: t"))

C30_ForeignDirectoryUntouched ==
    [][(disk.exists /\ disk.maker = "other") => disk' = disk]_vars

====
